---------------------------- MODULE Spec2Model ----------------------------
(***************************************************************************)
(* State-machine model of src/index.js: a top-level script that acquires a *)
(* WebGPU device, uploads three buffers, builds one render pipeline and    *)
(* submits one instanced draw of a square over a GRID_SIZE x GRID_SIZE     *)
(* grid.  The script is one thread of control; `pc' names the statement   *)
(* about to run.  The GPU side (buffers, queue, vertex stage) is modelled  *)
(* as far as the script and the embedded shader determine it.              *)
(*                                                                         *)
(* Numbers.  The vertex coordinates are +-0.8; they are kept in tenths     *)
(* (+-8).  A clip-space position computed by the vertex shader is kept as  *)
(* the numerator of a fraction whose denominator is 10 * grid, so that the *)
(* shader's real-valued formula is evaluated exactly.  The instance index  *)
(* is cast to f32 by the shader; F32 models that cast.                     *)
(*                                                                         *)
(* Environment.  The page supplies the <canvas> element; the outcomes the  *)
(* script itself tests (navigator.gpu, the adapter) are inputs.  Calls of  *)
(* the graphics API whose result the script does not test are taken to     *)
(* return normally.                                                        *)
(***************************************************************************)
EXTENDS Integers, Sequences, FiniteSets, TLC

\* src/index.js:1
GRID_SIZE == 32

\* createSquareVertices(0.8), in tenths
SIZE_TENTHS == 8

\* vertexBufferLayout.arrayStride and the attribute's offset, in bytes
ARRAY_STRIDE == 8
ATTRIBUTE_OFFSET == 0

\* Float32Array.BYTES_PER_ELEMENT = Uint32Array.BYTES_PER_ELEMENT
BYTES_PER_ELEMENT == 4

\* messages of the two throw statements
MSG_NO_WEBGPU == "WebGPU not supported on this browser."
MSG_NO_ADAPTER == "No appropriate GPUAdapter found."

\* labels of the three buffers
VERTEX_LABEL == "Cell vertices"
UNIFORM_LABEL == "Grid Uniforms"
CELL_STATE_LABEL == "Cell state"

VARIABLES
  hasGpu,            \* navigator.gpu is defined
  adapterAvailable,  \* requestAdapter() will resolve to an adapter, not null
  pc,                \* the statement about to run; "aborted" after a throw
  error,             \* message of the thrown Error, "" if none
  adapter,           \* "undefined" | "pending" | "null" | "adapter"
  device,            \* "undefined" | "pending" | "device"
  context,           \* "undefined" | "configured"
  vertices,          \* Float32Array of the square, in tenths
  uniformArray,      \* Float32Array [GRID_SIZE, GRID_SIZE]
  cellStateArray,    \* Uint32Array(GRID_SIZE * GRID_SIZE)
  i,                 \* index of the fill loop
  buffers,           \* GPU buffers by label: [size, data, writes, and the
                     \* byte offset and byte count of the last write]
  deviceErrors,      \* validation errors raised by the device
  cellShaderModule,  \* the shader module exists
  cellPipeline,      \* the render pipeline exists
  bindGroup,         \* <<buffer bound at binding 0, buffer bound at binding 1>>
  encoder,           \* "undefined" | "open" | "finished"
  pass,              \* "undefined" | "recording" | "ended"
  passState,         \* [pipeline, vertexBuffer, bindGroup] set in the pass
  commands,          \* commands recorded by the encoder
  submitted,         \* command buffers submitted to the queue
  calls,             \* every graphics-API call made so far, in order
  vsOut,             \* the vertex stage's output for the last instance run
  drawn              \* the cell of every instance run so far, in order

vars == << hasGpu, adapterAvailable, pc, error, adapter, device, context,
           vertices, uniformArray, cellStateArray, i, buffers, deviceErrors,
           cellShaderModule, cellPipeline, bindGroup, encoder, pass,
           passState, commands, submitted, calls, vsOut, drawn >>

---------------------------------------------------------------------------
(* Pure helpers *)

\* TypedArray.byteLength
ByteLength(arr) == BYTES_PER_ELEMENT * Len(arr)

\* new Float32Array([-s,-s, s,-s, s,s, -s,-s, s,s, -s,s])
createSquareVertices(size) ==
  << -size, -size,   size, -size,   size, size,
     -size, -size,   size, size,   -size, size >>

\* new Uint32Array(n): n zeroes
NewTypedArray(n) == [k \in 1..n |-> 0]

\* mutant: the element count is passed where the byte length is meant
BufferSizeFor_Length(arr) == Len(arr)

\* size given to createBuffer for the data it will hold: arr.byteLength
BufferSizeFor(arr) == ByteLength(arr)

\* device.createBuffer({label, size}): a zero-filled buffer of `size' bytes
CreateBuffer(bufs, label, size) ==
  (label :> [size |-> size,
             data |-> [k \in 1..(size \div BYTES_PER_ELEMENT) |-> 0],
             writes |-> 0, wOffset |-> 0, wBytes |-> 0]) @@ bufs

\* device.queue.writeBuffer(buffer, offset, data) is valid when the buffer
\* exists and offset + data.byteLength fits in it
WriteFits(bufs, label, offset, arr) ==
  /\ label \in DOMAIN bufs
  /\ offset + ByteLength(arr) <= bufs[label].size

\* the buffers after a valid writeBuffer: the data is copied at call time
WriteBuffer(bufs, label, offset, arr) ==
  LET first == offset \div BYTES_PER_ELEMENT
  IN [bufs EXCEPT ![label] =
        [size |-> @.size,
         data |-> [k \in 1..Len(@.data) |->
                     IF k > first /\ k <= first + Len(arr)
                     THEN arr[k - first] ELSE @.data[k]],
         writes |-> @.writes + 1,
         wOffset |-> offset, wBytes |-> ByteLength(arr)]]

\* the fill loop: for (let i = 0; i < cellStateArray.length; i += 3)
FillLoopStart == 0
FillLoopCond(idx, arr) == idx < Len(arr)
\* mutants: the index is not advanced; the index is advanced by two
FillLoopNext_Stuck(idx) == idx
FillLoopNext_Two(idx) == idx + 2

FillLoopNext(idx) == idx + 3

\* pass.draw(vertices.length / 2, GRID_SIZE * GRID_SIZE)
DrawVertexCount(verts) == Len(verts) \div 2
\* mutant: one instance too many
DrawInstanceCount_OneMore == GRID_SIZE * GRID_SIZE + 1

DrawInstanceCount == GRID_SIZE * GRID_SIZE

---------------------------------------------------------------------------
(* The embedded WGSL shader, lines 65-99 *)

\* f32(u32): exact up to 2^24, where every instance index of the draw lies;
\* above it the low bits are lost
F32(n) == IF n <= 16777216 THEN n ELSE (n \div 2) * 2

\* let cell = vec2f(i % grid.x, floor(i / grid.x)), with i = f32(instance)
Cell(instance, grid) ==
  LET fi == F32(instance)
  IN << fi % grid[1], fi \div grid[1] >>

\* GridPos_NoState is the mutant that leaves out the factor `state'.
\* One component of
\*   gridPos = (input.pos * state + 1) / grid - 1 + cell / grid * 2
\* as the numerator over 10 * g, for the component p of input.pos in tenths
GridPos_NoState(p, state, g, c) == (p + 10) - 10 * g + 2 * 10 * c

GridPos(p, state, g, c) == (p * state + 10) - 10 * g + 2 * 10 * c

\* vertexMain for one vertex of one instance; `state' is the value read
\* from cellState[input.instance]
vertexMain(inPos, instance, grid, state) ==
  LET cell == Cell(instance, grid)
  IN [pos  |-> << GridPos(inPos[1], state, grid[1], cell[1]),
                  GridPos(inPos[2], state, grid[2], cell[2]) >>,
      cell |-> cell]

\* the vertex attribute fetched for vertex v (from 0) of the vertex buffer:
\* format float32x2 at byte v * arrayStride + offset
VertexFetch(data, v) ==
  LET first == (v * ARRAY_STRIDE + ATTRIBUTE_OFFSET) \div BYTES_PER_ELEMENT
  IN << data[first + 1], data[first + 2] >>

---------------------------------------------------------------------------
(* The script's statements in program order *)

\* mutant: the cell state is uploaded before the fill loop runs
ProgramOrder_WriteBeforeFill ==
  << "checkGpu", "requestAdapter", "awaitAdapter", "checkAdapter",
     "requestDevice", "awaitDevice", "configureCanvas",
     "createSquareVertices", "createVertexBuffer", "writeVertexBuffer",
     "createShaderModule", "createRenderPipeline",
     "createUniformArray", "createUniformBuffer", "writeUniformBuffer",
     "createCellStateArray", "createCellStateStorage",
     "writeCellState", "fillLoopInit", "fillLoop",
     "createBindGroup", "createCommandEncoder", "beginRenderPass",
     "setPipeline", "setVertexBuffer", "setBindGroup", "draw", "passEnd",
     "encoderFinish", "queueSubmit", "done" >>

\* mutant: the draw is recorded before the bind group is set
ProgramOrder_DrawBeforeBindGroup ==
  << "checkGpu", "requestAdapter", "awaitAdapter", "checkAdapter",
     "requestDevice", "awaitDevice", "configureCanvas",
     "createSquareVertices", "createVertexBuffer", "writeVertexBuffer",
     "createShaderModule", "createRenderPipeline",
     "createUniformArray", "createUniformBuffer", "writeUniformBuffer",
     "createCellStateArray", "createCellStateStorage",
     "fillLoopInit", "fillLoop", "writeCellState",
     "createBindGroup", "createCommandEncoder", "beginRenderPass",
     "setPipeline", "setVertexBuffer", "draw", "setBindGroup", "passEnd",
     "encoderFinish", "queueSubmit", "done" >>

ProgramOrder ==
  << "checkGpu", "requestAdapter", "awaitAdapter", "checkAdapter",
     "requestDevice", "awaitDevice", "configureCanvas",
     "createSquareVertices", "createVertexBuffer", "writeVertexBuffer",
     "createShaderModule", "createRenderPipeline",
     "createUniformArray", "createUniformBuffer", "writeUniformBuffer",
     "createCellStateArray", "createCellStateStorage",
     "fillLoopInit", "fillLoop", "writeCellState",
     "createBindGroup", "createCommandEncoder", "beginRenderPass",
     "setPipeline", "setVertexBuffer", "setBindGroup", "draw", "passEnd",
     "encoderFinish", "queueSubmit", "done" >>

\* mutant: after the submission the script goes round to record and
\* submit another frame
After_NextFrame(l) ==
  IF l = "queueSubmit" THEN "createCommandEncoder"
  ELSE LET k == CHOOSE n \in 1..Len(ProgramOrder) : ProgramOrder[n] = l
       IN ProgramOrder[k + 1]

\* the statement that follows statement l
After(l) ==
  LET k == CHOOSE n \in 1..Len(ProgramOrder) : ProgramOrder[n] = l
  IN ProgramOrder[k + 1]

\* control is at statement l and falls through to the next one
Step(l) == pc = l /\ pc' = After(l)

\* the call is appended to the log of graphics-API calls
Call(op, arg) == calls' = Append(calls, [op |-> op, arg |-> arg])

NoDraw == [pipeline |-> FALSE, vertexBuffer |-> "", bindGroup |-> FALSE]
NoOutput == [instance |-> -1, inBounds |-> TRUE, state |-> 0, out |-> << >>]

Init ==
  /\ hasGpu \in BOOLEAN
  /\ adapterAvailable \in BOOLEAN
  /\ pc = ProgramOrder[1]
  /\ error = ""
  /\ adapter = "undefined"
  /\ device = "undefined"
  /\ context = "undefined"
  /\ vertices = << >>
  /\ uniformArray = << >>
  /\ cellStateArray = << >>
  /\ i = 0
  /\ buffers = << >>
  /\ deviceErrors = 0
  /\ cellShaderModule = FALSE
  /\ cellPipeline = FALSE
  /\ bindGroup = << >>
  /\ encoder = "undefined"
  /\ pass = "undefined"
  /\ passState = NoDraw
  /\ commands = << >>
  /\ submitted = << >>
  /\ calls = << >>
  /\ vsOut = NoOutput
  /\ drawn = << >>

\* mutants: each test inverted
NoGpu_Inverted == hasGpu
NoAdapter_Inverted == adapter # "null"

\* !navigator.gpu (line 6) and !adapter (line 12)
NoGpu == ~hasGpu
NoAdapter == adapter = "null"

\* a throw at top level: the module's evaluation stops
Throw(msg) ==
  /\ pc' = "aborted"
  /\ error' = msg

\* lines 6-8
CheckGpu ==
  /\ pc = "checkGpu"
  /\ IF NoGpu
     THEN Throw(MSG_NO_WEBGPU)
     ELSE pc' = After("checkGpu") /\ error' = error
  /\ UNCHANGED << hasGpu, adapterAvailable, adapter, device, context,
                  vertices, uniformArray, cellStateArray, i, buffers,
                  deviceErrors, cellShaderModule, cellPipeline, bindGroup,
                  encoder, pass, passState, commands, submitted, calls,
                  vsOut, drawn >>

\* line 11, the call: navigator.gpu.requestAdapter()
RequestAdapter ==
  /\ Step("requestAdapter")
  /\ adapter' = "pending"
  /\ Call("requestAdapter", "")
  /\ UNCHANGED << hasGpu, adapterAvailable, error, device, context,
                  vertices, uniformArray, cellStateArray, i, buffers,
                  deviceErrors, cellShaderModule, cellPipeline, bindGroup,
                  encoder, pass, passState, commands, submitted, vsOut, drawn >>

\* line 11, the await: the promise resolves to an adapter or to null
AwaitAdapter ==
  /\ Step("awaitAdapter")
  /\ adapter' = IF adapterAvailable THEN "adapter" ELSE "null"
  /\ UNCHANGED << hasGpu, adapterAvailable, error, device, context,
                  vertices, uniformArray, cellStateArray, i, buffers,
                  deviceErrors, cellShaderModule, cellPipeline, bindGroup,
                  encoder, pass, passState, commands, submitted, calls,
                  vsOut, drawn >>

\* lines 12-14
CheckAdapter ==
  /\ pc = "checkAdapter"
  /\ IF NoAdapter
     THEN Throw(MSG_NO_ADAPTER)
     ELSE pc' = After("checkAdapter") /\ error' = error
  /\ UNCHANGED << hasGpu, adapterAvailable, adapter, device, context,
                  vertices, uniformArray, cellStateArray, i, buffers,
                  deviceErrors, cellShaderModule, cellPipeline, bindGroup,
                  encoder, pass, passState, commands, submitted, calls,
                  vsOut, drawn >>

\* line 16, the call: adapter.requestDevice()
RequestDevice ==
  /\ Step("requestDevice")
  /\ device' = "pending"
  /\ Call("requestDevice", "")
  /\ UNCHANGED << hasGpu, adapterAvailable, error, adapter, context,
                  vertices, uniformArray, cellStateArray, i, buffers,
                  deviceErrors, cellShaderModule, cellPipeline, bindGroup,
                  encoder, pass, passState, commands, submitted, vsOut, drawn >>

\* line 16, the await
AwaitDevice ==
  /\ Step("awaitDevice")
  /\ device' = "device"
  /\ UNCHANGED << hasGpu, adapterAvailable, error, adapter, context,
                  vertices, uniformArray, cellStateArray, i, buffers,
                  deviceErrors, cellShaderModule, cellPipeline, bindGroup,
                  encoder, pass, passState, commands, submitted, calls,
                  vsOut, drawn >>

\* lines 19-24
ConfigureCanvas ==
  /\ Step("configureCanvas")
  /\ context' = "configured"
  /\ Call("configure", "")
  /\ UNCHANGED << hasGpu, adapterAvailable, error, adapter, device,
                  vertices, uniformArray, cellStateArray, i, buffers,
                  deviceErrors, cellShaderModule, cellPipeline, bindGroup,
                  encoder, pass, passState, commands, submitted, vsOut, drawn >>

\* line 50
CreateSquareVertices ==
  /\ Step("createSquareVertices")
  /\ vertices' = createSquareVertices(SIZE_TENTHS)
  /\ UNCHANGED << hasGpu, adapterAvailable, error, adapter, device,
                  context, uniformArray, cellStateArray, i, buffers,
                  deviceErrors, cellShaderModule, cellPipeline, bindGroup,
                  encoder, pass, passState, commands, submitted, calls,
                  vsOut, drawn >>

\* line 51, createGpuBuffer (lines 41-48)
CreateVertexBuffer ==
  /\ Step("createVertexBuffer")
  /\ Call("createBuffer", VERTEX_LABEL)
  /\ buffers' = CreateBuffer(buffers, VERTEX_LABEL, BufferSizeFor(vertices))
  /\ UNCHANGED << hasGpu, adapterAvailable, error, adapter, device,
                  context, vertices, uniformArray, cellStateArray, i,
                  deviceErrors, cellShaderModule, cellPipeline, bindGroup,
                  encoder, pass, passState, commands, submitted, vsOut, drawn >>

\* line 52
WriteVertexBuffer ==
  /\ Step("writeVertexBuffer")
  /\ Call("writeBuffer", VERTEX_LABEL)
  /\ IF WriteFits(buffers, VERTEX_LABEL, 0, vertices)
     THEN /\ buffers' = WriteBuffer(buffers, VERTEX_LABEL, 0, vertices)
          /\ deviceErrors' = deviceErrors
     ELSE /\ buffers' = buffers
          /\ deviceErrors' = deviceErrors + 1
  /\ UNCHANGED << hasGpu, adapterAvailable, error, adapter, device,
                  context, vertices, uniformArray, cellStateArray, i,
                  cellShaderModule, cellPipeline, bindGroup, encoder, pass,
                  passState, commands, submitted, vsOut, drawn >>

\* lines 101-104
CreateShaderModule ==
  /\ Step("createShaderModule")
  /\ cellShaderModule' = TRUE
  /\ Call("createShaderModule", "Cell shader")
  /\ UNCHANGED << hasGpu, adapterAvailable, error, adapter, device,
                  context, vertices, uniformArray, cellStateArray, i,
                  buffers, deviceErrors, cellPipeline, bindGroup, encoder,
                  pass, passState, commands, submitted, vsOut, drawn >>

\* lines 107-122
CreateRenderPipeline ==
  /\ Step("createRenderPipeline")
  /\ cellPipeline' = TRUE
  /\ Call("createRenderPipeline", "Cell pipeline")
  /\ UNCHANGED << hasGpu, adapterAvailable, error, adapter, device,
                  context, vertices, uniformArray, cellStateArray, i,
                  buffers, deviceErrors, cellShaderModule, bindGroup,
                  encoder, pass, passState, commands, submitted, vsOut, drawn >>

\* line 125
CreateUniformArray ==
  /\ Step("createUniformArray")
  /\ uniformArray' = << GRID_SIZE, GRID_SIZE >>
  /\ UNCHANGED << hasGpu, adapterAvailable, error, adapter, device,
                  context, vertices, cellStateArray, i, buffers,
                  deviceErrors, cellShaderModule, cellPipeline, bindGroup,
                  encoder, pass, passState, commands, submitted, calls,
                  vsOut, drawn >>

\* lines 126-130
CreateUniformBuffer ==
  /\ Step("createUniformBuffer")
  /\ Call("createBuffer", UNIFORM_LABEL)
  /\ buffers' = CreateBuffer(buffers, UNIFORM_LABEL, BufferSizeFor(uniformArray))
  /\ UNCHANGED << hasGpu, adapterAvailable, error, adapter, device,
                  context, vertices, uniformArray, cellStateArray, i,
                  deviceErrors, cellShaderModule, cellPipeline, bindGroup,
                  encoder, pass, passState, commands, submitted, vsOut, drawn >>

\* line 131
WriteUniformBuffer ==
  /\ Step("writeUniformBuffer")
  /\ Call("writeBuffer", UNIFORM_LABEL)
  /\ IF WriteFits(buffers, UNIFORM_LABEL, 0, uniformArray)
     THEN /\ buffers' = WriteBuffer(buffers, UNIFORM_LABEL, 0, uniformArray)
          /\ deviceErrors' = deviceErrors
     ELSE /\ buffers' = buffers
          /\ deviceErrors' = deviceErrors + 1
  /\ UNCHANGED << hasGpu, adapterAvailable, error, adapter, device,
                  context, vertices, uniformArray, cellStateArray, i,
                  cellShaderModule, cellPipeline, bindGroup, encoder, pass,
                  passState, commands, submitted, vsOut, drawn >>

\* line 134
CreateCellStateArray ==
  /\ Step("createCellStateArray")
  /\ cellStateArray' = NewTypedArray(GRID_SIZE * GRID_SIZE)
  /\ UNCHANGED << hasGpu, adapterAvailable, error, adapter, device,
                  context, vertices, uniformArray, i, buffers, deviceErrors,
                  cellShaderModule, cellPipeline, bindGroup, encoder, pass,
                  passState, commands, submitted, calls, vsOut, drawn >>

\* lines 136-140
CreateCellStateStorage ==
  /\ Step("createCellStateStorage")
  /\ Call("createBuffer", CELL_STATE_LABEL)
  /\ buffers' = CreateBuffer(buffers, CELL_STATE_LABEL, BufferSizeFor(cellStateArray))
  /\ UNCHANGED << hasGpu, adapterAvailable, error, adapter, device,
                  context, vertices, uniformArray, cellStateArray, i,
                  deviceErrors, cellShaderModule, cellPipeline, bindGroup,
                  encoder, pass, passState, commands, submitted, vsOut, drawn >>

\* line 143: let i = 0
FillLoopInit ==
  /\ Step("fillLoopInit")
  /\ i' = FillLoopStart
  /\ UNCHANGED << hasGpu, adapterAvailable, error, adapter, device,
                  context, vertices, uniformArray, cellStateArray, buffers,
                  deviceErrors, cellShaderModule, cellPipeline, bindGroup,
                  encoder, pass, passState, commands, submitted, calls,
                  vsOut, drawn >>

\* lines 143-145, one iteration: cellStateArray[i] = 1; i += 3
FillLoopBody ==
  /\ pc = "fillLoop"
  /\ FillLoopCond(i, cellStateArray)
  /\ cellStateArray' = [cellStateArray EXCEPT ![i + 1] = 1]
  /\ i' = FillLoopNext(i)
  /\ pc' = pc
  /\ UNCHANGED << hasGpu, adapterAvailable, error, adapter, device,
                  context, vertices, uniformArray, buffers, deviceErrors,
                  cellShaderModule, cellPipeline, bindGroup, encoder, pass,
                  passState, commands, submitted, calls, vsOut, drawn >>

\* line 143, the condition fails; line 146 logs the array
FillLoopExit ==
  /\ pc = "fillLoop"
  /\ ~FillLoopCond(i, cellStateArray)
  /\ pc' = After("fillLoop")
  /\ UNCHANGED << hasGpu, adapterAvailable, error, adapter, device,
                  context, vertices, uniformArray, cellStateArray, i,
                  buffers, deviceErrors, cellShaderModule, cellPipeline,
                  bindGroup, encoder, pass, passState, commands, submitted,
                  calls, vsOut, drawn >>

\* line 147
WriteCellState ==
  /\ Step("writeCellState")
  /\ Call("writeBuffer", CELL_STATE_LABEL)
  /\ IF WriteFits(buffers, CELL_STATE_LABEL, 0, cellStateArray)
     THEN /\ buffers' = WriteBuffer(buffers, CELL_STATE_LABEL, 0, cellStateArray)
          /\ deviceErrors' = deviceErrors
     ELSE /\ buffers' = buffers
          /\ deviceErrors' = deviceErrors + 1
  /\ UNCHANGED << hasGpu, adapterAvailable, error, adapter, device,
                  context, vertices, uniformArray, cellStateArray, i,
                  cellShaderModule, cellPipeline, bindGroup, encoder, pass,
                  passState, commands, submitted, vsOut, drawn >>

\* lines 150-164
CreateBindGroup ==
  /\ Step("createBindGroup")
  /\ bindGroup' = << UNIFORM_LABEL, CELL_STATE_LABEL >>
  /\ Call("createBindGroup", "Cell renderer bind group")
  /\ UNCHANGED << hasGpu, adapterAvailable, error, adapter, device,
                  context, vertices, uniformArray, cellStateArray, i,
                  buffers, deviceErrors, cellShaderModule, cellPipeline,
                  encoder, pass, passState, commands, submitted, vsOut, drawn >>

\* line 168
CreateCommandEncoder ==
  /\ Step("createCommandEncoder")
  /\ encoder' = "open"
  /\ Call("createCommandEncoder", "")
  /\ UNCHANGED << hasGpu, adapterAvailable, error, adapter, device,
                  context, vertices, uniformArray, cellStateArray, i,
                  buffers, deviceErrors, cellShaderModule, cellPipeline,
                  bindGroup, pass, passState, commands, submitted, vsOut, drawn >>

\* lines 170-177
BeginRenderPass ==
  /\ Step("beginRenderPass")
  /\ pass' = "recording"
  /\ passState' = NoDraw
  /\ Call("beginRenderPass", "")
  /\ UNCHANGED << hasGpu, adapterAvailable, error, adapter, device,
                  context, vertices, uniformArray, cellStateArray, i,
                  buffers, deviceErrors, cellShaderModule, cellPipeline,
                  bindGroup, encoder, commands, submitted, vsOut, drawn >>

\* line 180
SetPipeline ==
  /\ Step("setPipeline")
  /\ passState' = [passState EXCEPT !.pipeline = cellPipeline]
  /\ Call("setPipeline", "Cell pipeline")
  /\ UNCHANGED << hasGpu, adapterAvailable, error, adapter, device,
                  context, vertices, uniformArray, cellStateArray, i,
                  buffers, deviceErrors, cellShaderModule, cellPipeline,
                  bindGroup, encoder, pass, commands, submitted, vsOut, drawn >>

\* line 181
SetVertexBuffer ==
  /\ Step("setVertexBuffer")
  /\ passState' = [passState EXCEPT !.vertexBuffer = VERTEX_LABEL]
  /\ Call("setVertexBuffer", VERTEX_LABEL)
  /\ UNCHANGED << hasGpu, adapterAvailable, error, adapter, device,
                  context, vertices, uniformArray, cellStateArray, i,
                  buffers, deviceErrors, cellShaderModule, cellPipeline,
                  bindGroup, encoder, pass, commands, submitted, vsOut, drawn >>

\* line 182
SetBindGroup ==
  /\ Step("setBindGroup")
  /\ passState' = [passState EXCEPT !.bindGroup = (bindGroup # << >>)]
  /\ Call("setBindGroup", "Cell renderer bind group")
  /\ UNCHANGED << hasGpu, adapterAvailable, error, adapter, device,
                  context, vertices, uniformArray, cellStateArray, i,
                  buffers, deviceErrors, cellShaderModule, cellPipeline,
                  bindGroup, encoder, pass, commands, submitted, vsOut, drawn >>

\* line 183: the draw is recorded with the state the pass has now
Draw ==
  /\ Step("draw")
  /\ commands' = Append(commands,
                    [vertexCount   |-> DrawVertexCount(vertices),
                     instanceCount |-> DrawInstanceCount,
                     pipeline      |-> passState.pipeline,
                     vertexBuffer  |-> passState.vertexBuffer,
                     bindGroup     |-> passState.bindGroup])
  /\ Call("draw", "")
  /\ UNCHANGED << hasGpu, adapterAvailable, error, adapter, device,
                  context, vertices, uniformArray, cellStateArray, i,
                  buffers, deviceErrors, cellShaderModule, cellPipeline,
                  bindGroup, encoder, pass, passState, submitted, vsOut, drawn >>

\* line 184
PassEnd ==
  /\ Step("passEnd")
  /\ pass' = "ended"
  /\ Call("end", "")
  /\ UNCHANGED << hasGpu, adapterAvailable, error, adapter, device,
                  context, vertices, uniformArray, cellStateArray, i,
                  buffers, deviceErrors, cellShaderModule, cellPipeline,
                  bindGroup, encoder, passState, commands, submitted, vsOut, drawn
                  >>

\* line 187
EncoderFinish ==
  /\ Step("encoderFinish")
  /\ encoder' = "finished"
  /\ Call("finish", "")
  /\ UNCHANGED << hasGpu, adapterAvailable, error, adapter, device,
                  context, vertices, uniformArray, cellStateArray, i,
                  buffers, deviceErrors, cellShaderModule, cellPipeline,
                  bindGroup, pass, passState, commands, submitted, vsOut, drawn >>

\* line 189: the command buffer goes to the queue
QueueSubmit ==
  /\ Step("queueSubmit")
  /\ submitted' = Append(submitted, commands)
  /\ Call("submit", "")
  /\ UNCHANGED << hasGpu, adapterAvailable, error, adapter, device,
                  context, vertices, uniformArray, cellStateArray, i,
                  buffers, deviceErrors, cellShaderModule, cellPipeline,
                  bindGroup, encoder, pass, passState, commands, vsOut, drawn >>

---------------------------------------------------------------------------
(* The GPU runs the submitted draw *)

\* The vertex stage takes the instances of the submitted draw one by one
\* (instance = number of instances already run) and runs vertexMain for
\* every vertex of the instance.  grid and cellState are read through the
\* bind group, the vertex attribute from the bound vertex buffer.  A read of
\* cellState beyond its length yields some element of the array.
VertexStage ==
  /\ Len(submitted) > 0 /\ Len(submitted[1]) > 0
  /\ LET cmd       == submitted[1][1]
         grid      == buffers[bindGroup[1]].data
         cellState == buffers[bindGroup[2]].data
         vdata     == buffers[cmd.vertexBuffer].data
         instance  == Len(drawn)
     IN /\ cmd.pipeline /\ cmd.bindGroup
        /\ cmd.vertexBuffer \in DOMAIN buffers
        /\ instance < cmd.instanceCount
        /\ \E k \in IF instance < Len(cellState)
                    THEN {instance + 1} ELSE 1..Len(cellState) :
             vsOut' =
               [instance |-> instance,
                inBounds |-> instance < Len(cellState),
                state    |-> cellState[k],
                out      |-> [v \in 1..cmd.vertexCount |->
                                vertexMain(VertexFetch(vdata, v - 1),
                                           instance, grid, cellState[k])]]
        /\ drawn' = Append(drawn, Cell(instance, grid))
  /\ UNCHANGED << hasGpu, adapterAvailable, pc, error, adapter, device,
                  context, vertices, uniformArray, cellStateArray, i,
                  buffers, deviceErrors, cellShaderModule, cellPipeline,
                  bindGroup, encoder, pass, passState, commands, submitted,
                  calls >>

\* one step of the script
Script ==
  \/ CheckGpu
  \/ RequestAdapter
  \/ AwaitAdapter
  \/ CheckAdapter
  \/ RequestDevice
  \/ AwaitDevice
  \/ ConfigureCanvas
  \/ CreateSquareVertices
  \/ CreateVertexBuffer
  \/ WriteVertexBuffer
  \/ CreateShaderModule
  \/ CreateRenderPipeline
  \/ CreateUniformArray
  \/ CreateUniformBuffer
  \/ WriteUniformBuffer
  \/ CreateCellStateArray
  \/ CreateCellStateStorage
  \/ FillLoopInit
  \/ FillLoopBody
  \/ FillLoopExit
  \/ WriteCellState
  \/ CreateBindGroup
  \/ CreateCommandEncoder
  \/ BeginRenderPass
  \/ SetPipeline
  \/ SetVertexBuffer
  \/ SetBindGroup
  \/ Draw
  \/ PassEnd
  \/ EncoderFinish
  \/ QueueSubmit

Next ==
  \/ Script
  \/ VertexStage

Spec == Init /\ [][Next]_vars

\* The script is one job of the event loop: once started it runs to its end
\* or to a throw, and the two awaited promises settle.
FairSpec == Spec /\ WF_vars(Script)

---------------------------------------------------------------------------
(* Reading the log of calls *)

\* the positions in the log of the calls of op, and of op on arg
Idx(op) == {k \in 1..Len(calls) : calls[k].op = op}
IdxFor(op, arg) == {k \in Idx(op) : calls[k].arg = arg}

Happened(op) == Idx(op) # {}

\* every call of a made so far comes before every call of b made so far,
\* and b was not called without a
Precedes(a, b) ==
  /\ \A x \in Idx(a) : \A y \in Idx(b) : x < y
  /\ Happened(b) => Happened(a)

Labels == {VERTEX_LABEL, UNIFORM_LABEL, CELL_STATE_LABEL}

\* the grid's cells
GridCells == (0..(GRID_SIZE - 1)) \X (0..(GRID_SIZE - 1))

---------------------------------------------------------------------------
(* C1 *)

\* C1: when navigator.gpu is absent the script stops at the capability
\* check with the thrown error, and in that execution no adapter or device
\* is requested, no buffer is created or written and nothing is submitted.
C1_NoGpuAborts ==
  ~hasGpu =>
    /\ pc \in {"checkGpu", "aborted"}
    /\ pc = "aborted" => error = MSG_NO_WEBGPU
    /\ calls = << >>
    /\ adapter = "undefined" /\ device = "undefined"
    /\ buffers = << >>
    /\ commands = << >> /\ submitted = << >>

C1_Witness == ~hasGpu /\ pc = "aborted" /\ error = MSG_NO_WEBGPU

---------------------------------------------------------------------------
(* C2 *)

\* C2 as stated: the capability check is the only place where the script
\* throws, so an execution that passes it is never aborted.
C2_OnlyCapabilityCheckAborts == pc = "aborted" => ~hasGpu

\* C2 amended: the script has exactly two abort paths, the capability check
\* (line 6) and the adapter check (line 12).  An abort is one of the two,
\* thrown where its test fails, and an execution that passes both checks
\* goes statement by statement to the draw submission.
C2_TwoAbortPaths ==
  /\ [](pc = "aborted" =>
          \/ error = MSG_NO_WEBGPU /\ ~hasGpu /\ adapter = "undefined"
          \/ /\ error = MSG_NO_ADAPTER /\ hasGpu /\ adapter = "null"
             /\ device = "undefined")
  /\ [](error # "" => pc = "aborted")
  /\ [][pc \notin {"checkGpu", "checkAdapter", "fillLoop", "done",
                   "aborted"} =>
          pc' = After(pc)]_pc
  /\ (pc = After("checkAdapter")) ~> (pc = "done" /\ Happened("submit"))

C2_Witness ==
  pc = "aborted" /\ error = MSG_NO_ADAPTER /\ hasGpu /\ adapter = "null"

---------------------------------------------------------------------------
(* C3 *)

\* C3 as stated: whenever the graphics API is present the script does not
\* throw.
C3_NoErrorWhenApiPresent == hasGpu => error = ""

\* C3 amended: when the graphics API is present and an adapter is found,
\* the script never enters an error state, the fill loop terminates, and
\* the script reaches the final queue submission and ends.
C3_Completes ==
  (hasGpu /\ adapterAvailable) =>
    /\ [](error = "" /\ pc # "aborted" /\ deviceErrors = 0)
    /\ (pc = "fillLoop") ~> (pc = After("fillLoop"))
    /\ <>[](pc = "done" /\ Len(submitted) = 1)

C3_Witness ==
  /\ hasGpu /\ adapterAvailable /\ pc = "done" /\ error = ""
  /\ Len(submitted) = 1 /\ i >= Len(cellStateArray)

---------------------------------------------------------------------------
(* C4 *)

\* C4: the cell-state data uploaded to the storage buffer holds only 0 and
\* 1, entry k is 1 exactly when k mod 3 = 0, and among every three
\* consecutive entries exactly one is 1.
C4_OneActivePerThree ==
  (CELL_STATE_LABEL \in DOMAIN buffers
     /\ buffers[CELL_STATE_LABEL].writes > 0) =>
    LET d == buffers[CELL_STATE_LABEL].data
    IN /\ Len(d) = GRID_SIZE * GRID_SIZE
       /\ \A k \in 0..(Len(d) - 1) :
            /\ d[k + 1] \in {0, 1}
            /\ d[k + 1] = 1 <=> k % 3 = 0
       /\ \A k \in 0..(Len(d) - 3) :
            Cardinality({j \in k..(k + 2) : d[j + 1] = 1}) = 1

C4_Witness ==
  /\ CELL_STATE_LABEL \in DOMAIN buffers
  /\ buffers[CELL_STATE_LABEL].writes = 1
  /\ buffers[CELL_STATE_LABEL].data[4] = 1
  /\ buffers[CELL_STATE_LABEL].data[5] = 0

---------------------------------------------------------------------------
(* C5 *)

\* C5: at every point at most one draw has been recorded and at most one
\* command buffer submitted, and exactly one of each when the script has
\* run to its end; the GPU runs the instances of that one draw only.
C5_SingleDraw ==
  /\ Cardinality(Idx("draw")) <= 1
  /\ Cardinality(Idx("submit")) <= 1
  /\ Cardinality(Idx("beginRenderPass")) <= 1
  /\ Len(commands) <= 1
  /\ Len(submitted) <= 1
  /\ pc = "done" =>
       /\ Cardinality(Idx("draw")) = 1
       /\ Cardinality(Idx("submit")) = 1
       /\ Len(submitted) = 1 /\ Len(submitted[1]) = 1
  /\ Len(drawn) > 0 => Len(submitted) = 1

C5_Witness ==
  /\ pc = "done" /\ Len(submitted) = 1
  /\ Cardinality(Idx("draw")) = 1
  /\ Len(drawn) = GRID_SIZE * GRID_SIZE

---------------------------------------------------------------------------
(* C6 *)

\* the state part of C6
C6_Lifecycle ==
  /\ \A L \in Labels :
       /\ Cardinality(IdxFor("createBuffer", L)) <= 1
       /\ Cardinality(IdxFor("writeBuffer", L)) <= 1
       /\ (L \in DOMAIN buffers) = (IdxFor("createBuffer", L) # {})
       /\ L \in DOMAIN buffers =>
            buffers[L].writes = Cardinality(IdxFor("writeBuffer", L))
       /\ \A w \in IdxFor("writeBuffer", L) :
            /\ \E c \in IdxFor("createBuffer", L) : c < w
            /\ \A q \in Idx("submit") : w < q
       /\ Happened("submit") =>
            /\ Cardinality(IdxFor("createBuffer", L)) = 1
            /\ Cardinality(IdxFor("writeBuffer", L)) = 1
  /\ DOMAIN buffers \subseteq Labels
  /\ IdxFor("writeBuffer", CELL_STATE_LABEL) # {} =>
       /\ pc # "fillLoop" /\ pc # "fillLoopInit"
       /\ ~FillLoopCond(i, cellStateArray)
       /\ buffers[CELL_STATE_LABEL].data = cellStateArray

\* C6: each of the three buffers is created exactly once and written
\* exactly once, after its creation and before the one submission; after
\* the submission no buffer is written, resized or freed; and the
\* cell-state write comes after the fill loop has ended, so the buffer
\* holds the final contents of cellStateArray.
C6_BufferLifecycle ==
  /\ []C6_Lifecycle
  /\ [][/\ \A L \in DOMAIN buffers :
             L \in DOMAIN buffers' /\ buffers'[L].size = buffers[L].size
        /\ Happened("submit") => buffers' = buffers
        /\ IdxFor("writeBuffer", CELL_STATE_LABEL) # {} =>
             cellStateArray' = cellStateArray]_vars

C6_Witness ==
  /\ pc = "done" /\ Happened("submit")
  /\ \A L \in Labels : L \in DOMAIN buffers /\ buffers[L].writes = 1
  /\ buffers[CELL_STATE_LABEL].data = cellStateArray
  /\ cellStateArray[1] = 1

---------------------------------------------------------------------------
(* C7 *)

\* calls that build buffers, and calls that need the device
BufferCalls == Idx("createBuffer") \cup Idx("writeBuffer")
DeviceOps ==
  {"configure", "createBuffer", "writeBuffer", "createShaderModule",
   "createRenderPipeline", "createBindGroup", "createCommandEncoder"}

\* C7 as stated: the four phases follow one another: every buffer is built
\* after the device is found and before the pipeline is built, and the
\* pipeline before the draw.
C7_PhasesInOrder ==
  /\ \A x \in Idx("requestDevice") : \A y \in BufferCalls : x < y
  /\ \A x \in BufferCalls : \A y \in Idx("createRenderPipeline") : x < y
  /\ \A x \in Idx("createRenderPipeline") : \A y \in Idx("draw") : x < y

\* C7 amended: the device is acquired before any buffer, shader module or
\* pipeline is created; the vertex buffer is built before the pipeline and
\* the uniform and cell-state buffers after it; the pipeline, the three
\* buffers and the bind group exist before the render pass begins; in the
\* pass setPipeline, setVertexBuffer and setBindGroup precede draw, draw
\* precedes end, end precedes finish and finish precedes submit.
C7_Order ==
  /\ Precedes("requestAdapter", "requestDevice")
  /\ \A op \in DeviceOps :
       Happened(op) => device = "device" /\ Precedes("requestDevice", op)
  /\ \A y \in Idx("createRenderPipeline") :
       /\ \A x \in IdxFor("createBuffer", VERTEX_LABEL)
                     \cup IdxFor("writeBuffer", VERTEX_LABEL) : x < y
       /\ \A x \in BufferCalls :
            calls[x].arg \in {UNIFORM_LABEL, CELL_STATE_LABEL} => y < x
  /\ Precedes("createShaderModule", "createRenderPipeline")
  /\ Happened("beginRenderPass") =>
       /\ cellPipeline /\ cellShaderModule /\ bindGroup # << >>
       /\ \A L \in Labels : L \in DOMAIN buffers /\ buffers[L].writes = 1
       /\ \A n \in 1..Len(bindGroup) : bindGroup[n] \in DOMAIN buffers
  /\ Precedes("createRenderPipeline", "beginRenderPass")
  /\ Precedes("createBuffer", "beginRenderPass")
  /\ Precedes("writeBuffer", "beginRenderPass")
  /\ Precedes("createBindGroup", "beginRenderPass")
  /\ Precedes("createCommandEncoder", "beginRenderPass")
  /\ Precedes("beginRenderPass", "setPipeline")
  /\ Precedes("beginRenderPass", "setVertexBuffer")
  /\ Precedes("beginRenderPass", "setBindGroup")
  /\ Precedes("setPipeline", "draw")
  /\ Precedes("setVertexBuffer", "draw")
  /\ Precedes("setBindGroup", "draw")
  /\ Precedes("draw", "end")
  /\ Precedes("end", "finish")
  /\ Precedes("finish", "submit")
  /\ \A n \in 1..Len(commands) :
       /\ commands[n].pipeline /\ commands[n].bindGroup
       /\ commands[n].vertexBuffer = VERTEX_LABEL

C7_Witness ==
  /\ pc = "done" /\ Happened("submit") /\ Happened("draw")
  /\ Len(commands) = 1 /\ commands[1].pipeline /\ commands[1].bindGroup

---------------------------------------------------------------------------
(* C8 *)

\* the cells of the instances run so far
DrawnCells == {drawn[n] : n \in 1..Len(drawn)}

---------------------------------------------------------------------------
(* C9 *)

\* the clip-space coordinate, over 10 * GRID_SIZE, of the lower edge of
\* grid column or row c; the cell is 2 * 10 wide
CellLow(c) == 2 * 10 * c - 10 * GRID_SIZE

\* C9: for an instance whose cell state is 0, all six vertices get the
\* same position (the centre of the instance's cell, whatever the input
\* vertex), so the instance covers no area; for an instance whose state
\* is 1, vertices with different input positions keep different output
\* positions: the four corners of the square of half-side 0.8 / grid
\* centred in the instance's cell, strictly inside that cell.
C9_InactiveCollapses ==
  vsOut.instance >= 0 =>
    LET out    == vsOut.out
        vdata  == buffers[VERTEX_LABEL].data
        cell   == Cell(vsOut.instance, << GRID_SIZE, GRID_SIZE >>)
        points == {out[v].pos : v \in 1..Len(out)}
    IN /\ Len(out) = 6
       /\ vsOut.state \in {0, 1}
       /\ vsOut.state = buffers[CELL_STATE_LABEL].data[vsOut.instance + 1]
       /\ vsOut.state = 0 =>
            /\ \A v, w \in 1..Len(out) : out[v].pos = out[w].pos
            /\ points = {<< CellLow(cell[1]) + 10, CellLow(cell[2]) + 10 >>}
       /\ vsOut.state = 1 =>
            /\ \A v, w \in 1..Len(out) :
                 (out[v].pos = out[w].pos) <=>
                   (VertexFetch(vdata, v - 1) = VertexFetch(vdata, w - 1))
            /\ points =
                 {<< CellLow(cell[1]) + 10 + dx, CellLow(cell[2]) + 10 + dy >> :
                    dx \in {-SIZE_TENTHS, SIZE_TENTHS},
                    dy \in {-SIZE_TENTHS, SIZE_TENTHS}}
            /\ Cardinality(points) = 4
            /\ \A q \in points : \A d \in 1..2 :
                 /\ CellLow(cell[d]) < q[d]
                 /\ q[d] < CellLow(cell[d]) + 2 * 10

C9_Witness ==
  /\ vsOut.instance = GRID_SIZE + 2
  /\ vsOut.state = 0
  /\ Len(vsOut.out) = 6
  /\ vsOut.out[1].pos = vsOut.out[3].pos

---------------------------------------------------------------------------
(* C10 *)

\* C10: every buffer is created with the byte length of the data later
\* written to it (48, 8 and 4 * GRID_SIZE * GRID_SIZE bytes), every write
\* starts at offset 0 and fits its buffer, and the vertex buffer holds the
\* 6 vertices of 8 bytes that the draw reads.
C10_SizesMatch ==
  /\ deviceErrors = 0
  /\ VERTEX_LABEL \in DOMAIN buffers =>
       /\ buffers[VERTEX_LABEL].size = ByteLength(vertices)
       /\ buffers[VERTEX_LABEL].size = 48
       /\ DrawVertexCount(vertices) = 6
       /\ DrawVertexCount(vertices) * ARRAY_STRIDE =
            buffers[VERTEX_LABEL].size
  /\ UNIFORM_LABEL \in DOMAIN buffers =>
       /\ buffers[UNIFORM_LABEL].size = ByteLength(uniformArray)
       /\ buffers[UNIFORM_LABEL].size = 8
  /\ CELL_STATE_LABEL \in DOMAIN buffers =>
       /\ buffers[CELL_STATE_LABEL].size = ByteLength(cellStateArray)
       /\ buffers[CELL_STATE_LABEL].size = 4 * GRID_SIZE * GRID_SIZE
  /\ \A L \in DOMAIN buffers :
       buffers[L].writes > 0 =>
         /\ buffers[L].wOffset = 0
         /\ buffers[L].wBytes = buffers[L].size
         /\ buffers[L].wOffset + buffers[L].wBytes <= buffers[L].size
  /\ \A n \in 1..Len(commands) :
       /\ commands[n].vertexCount = 6
       /\ commands[n].vertexCount * ARRAY_STRIDE
            <= buffers[VERTEX_LABEL].size

C10_Witness ==
  /\ Happened("draw")
  /\ \A L \in Labels :
       /\ L \in DOMAIN buffers
       /\ buffers[L].writes = 1 /\ buffers[L].wBytes = buffers[L].size
  /\ buffers[VERTEX_LABEL].size = 48
  /\ buffers[CELL_STATE_LABEL].size = 4 * GRID_SIZE * GRID_SIZE

===========================================================================
